------------------------------ MODULE Spec2Model ------------------------------
(***************************************************************************)
(* Model of the Mini Story Generator (src/app.py): the prompt template,    *)
(* the generation call and its post-processing (prompt stripping, trimming *)
(* to the last period, wrapping to 90 columns), the optional text-to-      *)
(* speech export, and the button handler that ties them together.          *)
(*                                                                         *)
(* Text is a sequence of one-character strings.  Temperature and top-p are *)
(* kept in hundredths (0.9 is 90): the code never computes with them, it   *)
(* only hands them on.  The modelled alphabet has two whitespace           *)
(* characters, space and newline, and no hyphen and no tab, so that        *)
(* textwrap's chunking is the split into maximal whitespace and            *)
(* non-whitespace runs.                                                    *)
(***************************************************************************)
EXTENDS Integers, Sequences, FiniteSets

VARIABLES
    TTS_AVAILABLE,  \* whether "from gtts import gTTS" succeeded
    model_name, max_len, temp, top_p, top_k, seed,   \* sidebar widgets
    character, mood, setting, theme,                 \* story input widgets
    rng,            \* the process-wide random generator state
    sampled,        \* completions the generator has produced from a fresh seed
    kwargs,         \* arguments of the last generator call
    prompt,         \* local "prompt" of the last run
    continuation,   \* what the generator wrote after (or instead of) the prompt
    out,            \* the list the generator call returned
    generated,      \* out[0]['generated_text'] of the last run
    trimmed,        \* local "story" just before textwrap.fill
    story,          \* value returned by generate_story
    page,           \* elements the button branch rendered in the last run
    files,          \* working directory: the audio files and their content
    tts_texts,      \* texts handed to gTTS so far
    history,        \* log of the generate_story calls: arguments and result
    nruns, nedits,  \* counters bounding a behaviour
    pc,             \* position of the pure-function harness
    sess            \* concurrent sessions: locals and position of each script run

vars == <<TTS_AVAILABLE, model_name, max_len, temp, top_p, top_k, seed,
          character, mood, setting, theme, rng, sampled, kwargs, prompt,
          continuation, out, generated, trimmed, story, page, files, tts_texts,
          history, nruns, nedits, pc, sess>>

widgets == <<model_name, max_len, temp, top_p, top_k, seed,
             character, mood, setting, theme>>

-------------------------------------------------------------------------------
(* Program constants *)

Width == 90
NumReturnSequences == 1
DefaultMaxLen == 200
DefaultTemp == 90
DefaultTopP == 95
DefaultTopK == 50
DefaultSeed == 42

(* Bounds of the model *)

MaxPieces == 3
MaxRuns == 3
MaxEdits == 2

-------------------------------------------------------------------------------
(* Text literals of the source *)

InstructionLine ==
    <<"W", "r", "i", "t", "e", " ", "a", " ", "s", "h", "o", "r", "t", ",", " ", "i", "m", "a", "g", "i", "n", "a", "t", "i", "v", "e", " ", "s", "t", "o", "r", "y", " ", "f", "o", "r", " ", "k", "i", "d", "s", ".", "\n">>
CharacterLabel ==
    <<"C", "h", "a", "r", "a", "c", "t", "e", "r", ":", " ">>
SettingLabel ==
    <<"S", "e", "t", "t", "i", "n", "g", ":", " ">>
MoodLabel ==
    <<"M", "o", "o", "d", ":", " ">>
ThemeLabel ==
    <<"T", "h", "e", "m", "e", ":", " ">>
StoryLabel ==
    <<"S", "t", "o", "r", "y", ":", "\n">>
DefaultCharacter ==
    <<"M", "a", "y", "a", " ", "t", "h", "e", " ", "C", "a", "t">>
DefaultSetting ==
    <<"a", " ", "f", "l", "o", "a", "t", "i", "n", "g", " ", "i", "s", "l", "a", "n", "d", " ", "i", "n", " ", "t", "h", "e", " ", "c", "l", "o", "u", "d", "s">>
DefaultTheme ==
    <<"f", "r", "i", "e", "n", "d", "s", "h", "i", "p", " ", "a", "n", "d", " ", "c", "o", "u", "r", "a", "g", "e">>
happy ==
    <<"h", "a", "p", "p", "y">>
mysterious ==
    <<"m", "y", "s", "t", "e", "r", "i", "o", "u", "s">>
adventurous ==
    <<"a", "d", "v", "e", "n", "t", "u", "r", "o", "u", "s">>
calm ==
    <<"c", "a", "l", "m">>
silly ==
    <<"s", "i", "l", "l", "y">>
MoodOptions == {happy, mysterious, adventurous, calm, silly}
ModelOptions == {"distilgpt2", "gpt2"}

-------------------------------------------------------------------------------
(* String operations of Python used by the source *)

Whitespace == {" ", "\n"}

\* str.isspace-like test used by strip() and by textwrap: every character
\* is whitespace (true of the empty string, as ''.strip() == '' is)
IsBlank(s) == \A i \in 1..Len(s) : s[i] \in Whitespace

\* story.startswith(prompt)
StartsWith(s, p) == Len(p) <= Len(s) /\ SubSeq(s, 1, Len(p)) = p

\* position of the first character that is not whitespace (Len(s) + 1 if none)
LStripIndex(s) ==
    IF IsBlank(s) THEN Len(s) + 1
    ELSE CHOOSE i \in 1..Len(s) :
            s[i] \notin Whitespace /\ \A j \in 1..(i - 1) : s[j] \in Whitespace

\* position of the last character that is not whitespace (0 if none)
RStripIndex(s) ==
    IF IsBlank(s) THEN 0
    ELSE CHOOSE i \in 1..Len(s) :
            s[i] \notin Whitespace /\ \A j \in (i + 1)..Len(s) : s[j] \in Whitespace

\* str.strip(): leading and trailing whitespace removed
Strip(s) == SubSeq(s, LStripIndex(s), RStripIndex(s))

\* str.rfind(c): the highest 0-based index of c, or -1
RFind(s, c) ==
    IF \A i \in 1..Len(s) : s[i] # c THEN -1
    ELSE (CHOOSE i \in 1..Len(s) :
            s[i] = c /\ \A j \in (i + 1)..Len(s) : s[j] # c) - 1

\* str.__contains__
Contains(s, c) == \E i \in 1..Len(s) : s[i] = c

\* s[:n]
Prefix(s, n) == SubSeq(s, 1, n)

\* s[n:]
Suffix(s, n) == SubSeq(s, n + 1, Len(s))

RECURSIVE Join(_)
Join(chunks) ==
    IF chunks = <<>> THEN <<>> ELSE Head(chunks) \o Join(Tail(chunks))

RECURSIVE JoinLines(_)
JoinLines(lines) ==
    IF lines = <<>> THEN <<>>
    ELSE IF Len(lines) = 1 THEN lines[1]
    ELSE lines[1] \o <<"\n">> \o JoinLines(Tail(lines))

-------------------------------------------------------------------------------
(* textwrap.fill(text, width) with the default options: whitespace is      *)
(* replaced by spaces, whitespace at line ends is dropped, long words are  *)
(* broken.                                                                 *)

\* TextWrapper._munge_whitespace
MungeWhitespace(s) ==
    [i \in 1..Len(s) |-> IF s[i] \in Whitespace THEN " " ELSE s[i]]

\* last index of the maximal run of one kind (whitespace or not) that
\* starts at position i
ChunkEnd(s, i) ==
    CHOOSE e \in i..Len(s) :
        /\ e = Len(s) \/ ((s[e + 1] \in Whitespace) # (s[i] \in Whitespace))
        /\ \A j \in i..e : (s[j] \in Whitespace) = (s[i] \in Whitespace)

RECURSIVE SplitFrom(_, _)
SplitFrom(s, i) ==
    IF i > Len(s) THEN <<>>
    ELSE LET e == ChunkEnd(s, i)
         IN <<SubSeq(s, i, e)>> \o SplitFrom(s, e + 1)

\* TextWrapper._split: the chunks, words and the whitespace between them
Split(s) == SplitFrom(s, 1)

RECURSIVE TakeFitting(_, _, _, _)
\* the inner loop of _wrap_chunks: index of the first chunk that no longer
\* fits on the current line
TakeFitting(chunks, k, cur_len, width) ==
    IF k <= Len(chunks) /\ cur_len + Len(chunks[k]) <= width
    THEN TakeFitting(chunks, k + 1, cur_len + Len(chunks[k]), width)
    ELSE k

\* a wrapper that never breaks a long word (break_long_words off)
LongWordKeptWhole(chunk, cur_len, width) == Len(chunk)

\* TextWrapper._handle_long_word with break_long_words: how much of the
\* chunk goes on the current line
LongWordCut(chunk, cur_len, width) == width - cur_len

RECURSIVE WrapChunks(_, _, _)
\* TextWrapper._wrap_chunks: the lines
WrapChunks(chunks, lines, width) ==
    IF chunks = <<>> THEN lines
    ELSE
      LET c0 == IF IsBlank(chunks[1]) /\ lines # <<>> THEN Tail(chunks) ELSE chunks
          k == TakeFitting(c0, 1, 0, width)
          line0 == SubSeq(c0, 1, k - 1)
          rest0 == SubSeq(c0, k, Len(c0))
          long == rest0 # <<>> /\ Len(rest0[1]) > width
          cut == LongWordCut(rest0[1], Len(Join(line0)), width)
          line1 == IF long THEN Append(line0, Prefix(rest0[1], cut)) ELSE line0
          rest1 == IF long THEN <<Suffix(rest0[1], cut)>> \o Tail(rest0) ELSE rest0
          line2 == IF line1 # <<>> /\ IsBlank(line1[Len(line1)])
                   THEN SubSeq(line1, 1, Len(line1) - 1) ELSE line1
          lines1 == IF line2 # <<>> THEN Append(lines, Join(line2)) ELSE lines
      IN WrapChunks(rest1, lines1, width)

\* textwrap.wrap
Wrap(text, width) == WrapChunks(Split(MungeWhitespace(text)), <<>>, width)

\* textwrap.fill
Fill(text, width) == JoinLines(Wrap(text, width))

-------------------------------------------------------------------------------
(* build_prompt and the post-processing of generate_story *)

\* the template with the Mood line put before the Setting line
build_prompt_mood_first(c, s, m, t) ==
    InstructionLine
      \o CharacterLabel \o c \o <<"\n">>
      \o MoodLabel \o m \o <<"\n">>
      \o SettingLabel \o s \o <<"\n">>
      \o ThemeLabel \o t \o <<"\n", "\n">>
      \o StoryLabel

\* lines 20-30
build_prompt(c, s, m, t) ==
    InstructionLine
      \o CharacterLabel \o c \o <<"\n">>
      \o SettingLabel \o s \o <<"\n">>
      \o MoodLabel \o m \o <<"\n">>
      \o ThemeLabel \o t \o <<"\n", "\n">>
      \o StoryLabel

\* the echoed prompt left in place
StripPromptKeepsEcho(text, p) == text

\* lines 44-45: strip the prompt from the result if the model echoed it
StripPrompt(text, p) ==
    IF StartsWith(text, p) THEN Strip(Suffix(text, Len(p))) ELSE text

\* the slice story[:idx], which loses the period
TrimBeforePeriod(text) ==
    IF Contains(text, ".") THEN Prefix(text, RFind(text, ".")) ELSE text

\* the slice taken without the test '.' in story
TrimUnguarded(text) == Prefix(text, RFind(text, ".") + 1)

\* lines 47-49: stop at the last full sentence
TrimToLastSentence(text) ==
    IF Contains(text, ".") THEN Prefix(text, RFind(text, ".") + 1) ELSE text

\* line 50
WrapStory(text) == Fill(Strip(text), Width)

\* lines 42-49: the local "story" just before line 50, from out[0]'s text
TrimmedStory(text, p) == TrimToLastSentence(StripPrompt(text, p))

\* lines 42-50: what generate_story returns, from out[0]'s text
generate_story(text, p) == WrapStory(TrimmedStory(text, p))

-------------------------------------------------------------------------------
(* Inputs of the pure-function harness *)

Rep(c, n) == [i \in 1..n |-> c]

RunLens == {1, Width \div 2 + 1, Width + 1}

Pieces ==
    {Rep("a", n) : n \in RunLens}
      \cup {Rep(" ", 1), Rep(" ", Width + 1), <<".">>, <<"\n">>}

RECURSIVE TextsOf(_)
\* concatenations of at most n pieces
TextsOf(n) ==
    IF n = 0 THEN {<<>>}
    ELSE LET shorter == TextsOf(n - 1)
         IN shorter \cup {t \o p : t \in shorter, p \in Pieces}

HarnessPrompts ==
    {build_prompt(c, DefaultSetting, happy, DefaultTheme) :
        c \in {DefaultCharacter, <<"B", "o", ".">>}}

EchoModes == {"echo", "bare", "altered"}

\* what the generator returns: the prompt followed by new text (the
\* pipeline's default), the new text alone, or the prompt reproduced
\* inexactly and followed by new text
GeneratedText(mode, p, c) ==
    CASE mode = "echo" -> p \o c
      [] mode = "bare" -> c
      [] mode = "altered" -> <<" ">> \o p \o c

NoPage == <<>>
NoKwargs == [prompt |-> <<>>, max_length |-> 0, num_return_sequences |-> 0,
             do_sample |-> FALSE, temperature |-> 0, top_k |-> 0, top_p |-> 0]
Unseeded == [seed |-> -1, fresh |-> FALSE]

InitWidgets ==
    /\ model_name = "distilgpt2"
    /\ max_len = DefaultMaxLen
    /\ temp = DefaultTemp
    /\ top_p = DefaultTopP
    /\ top_k = DefaultTopK
    /\ seed = DefaultSeed
    /\ character = DefaultCharacter
    /\ mood = happy
    /\ setting = DefaultSetting
    /\ theme = DefaultTheme

InitIdle ==
    /\ rng = Unseeded
    /\ sampled = {}
    /\ kwargs = NoKwargs
    /\ page = NoPage
    /\ files = {}
    /\ tts_texts = {}
    /\ history = <<>>
    /\ nruns = 0
    /\ nedits = 0

InitText ==
    /\ TTS_AVAILABLE = FALSE
    /\ InitWidgets
    /\ InitIdle
    /\ sess = <<>>
    /\ pc = "call"
    /\ prompt \in HarnessPrompts
    /\ continuation \in TextsOf(MaxPieces)
    /\ \E mode \in EchoModes : out = <<GeneratedText(mode, prompt, continuation)>>
    /\ generated = out[1]
    /\ trimmed = <<>>
    /\ story = <<>>

\* lines 42-50 of generate_story applied to one generator result
PostProcess ==
    /\ pc = "call"
    /\ pc' = "done"
    /\ trimmed' = TrimmedStory(generated, prompt)
    /\ story' = generate_story(generated, prompt)
    /\ UNCHANGED <<TTS_AVAILABLE, widgets, rng, sampled, kwargs, prompt,
                   continuation, out, generated, page, files, tts_texts,
                   history, nruns, nedits, sess>>

NextText == PostProcess

SpecText == InitText /\ [][NextText]_vars

-------------------------------------------------------------------------------
(* The generation call: lines 32-42 *)

\* the keyword arguments the handler gives generate_story without temperature,
\* which then takes its default
GenerateStoryArgsDefaultTemp(p, ml, sd, t, tk, tp) ==
    [prompt |-> p, max_length |-> ml, num_return_sequences |-> NumReturnSequences,
     seed |-> sd, temperature |-> DefaultTemp, top_k |-> tk, top_p |-> tp]

\* lines 89-94: the arguments of generate_story as the handler binds them
\* (num_return_sequences is left to its default)
GenerateStoryArgs(p, ml, sd, t, tk, tp) ==
    [prompt |-> p, max_length |-> ml, num_return_sequences |-> NumReturnSequences,
     seed |-> sd, temperature |-> t, top_k |-> tk, top_p |-> tp]

\* lines 34-40: what generate_story gives the generator
GeneratorKwargs(args) ==
    [prompt |-> args.prompt, max_length |-> args.max_length,
     num_return_sequences |-> args.num_return_sequences, do_sample |-> TRUE,
     temperature |-> args.temperature, top_k |-> args.top_k,
     top_p |-> args.top_p]

\* a generate_story that leaves the generator state as it finds it
set_seed_skipped(s, r) == r

\* line 33: transformers.set_seed puts the process-wide generator into the
\* state the seed determines, whatever state r it was in
set_seed(s, r) == [seed |-> s, fresh |-> TRUE]

\* sampling advances the generator to a state that depends on what was drawn
Advance(r) == [r EXCEPT !.fresh = FALSE]

UiContinuations ==
    { <<"H", "i", "\n", "h", "o", ".", " ", "T", "h">>,
      <<" ", "h", "i", " ", "h", "o">> }

\* the texts a call can return: the pipeline returns the prompt followed by
\* the newly sampled text
Completions(p) == {GeneratedText("echo", p, c) : c \in UiContinuations}

\* the generator is a function of the model, its arguments and the state of
\* the random generator: from a freshly seeded state it returns what it
\* returned before from that state, from any other state anything
GeneratorResults(model, kw, r, memo) ==
    LET key == [model |-> model, kwargs |-> kw, seed |-> r.seed]
        seen == {m \in memo : m.key = key}
    IN IF r.fresh /\ seen # {}
       THEN {m.out : m \in seen}
       ELSE [1..kw.num_return_sequences -> Completions(kw.prompt)]

Remember(model, kw, r, o, memo) ==
    IF r.fresh
    THEN memo \cup {[key |-> [model |-> model, kwargs |-> kw, seed |-> r.seed],
                     out |-> o]}
    ELSE memo

-------------------------------------------------------------------------------
(* Text-to-speech export: lines 52-58 *)

Digit(d) ==
    CASE d = 0 -> "0" [] d = 1 -> "1" [] d = 2 -> "2" [] d = 3 -> "3"
      [] d = 4 -> "4" [] d = 5 -> "5" [] d = 6 -> "6" [] d = 7 -> "7"
      [] d = 8 -> "8" [] d = 9 -> "9"

RECURSIVE Str(_)
\* str(n) of a non-negative integer
Str(n) == IF n < 10 THEN <<Digit(n)>> ELSE Str(n \div 10) \o <<Digit(n % 10)>>

\* line 100: f"story_{seed}.mp3"
AudioFileName(sd) ==
    <<"s", "t", "o", "r", "y", "_">> \o Str(sd) \o <<".", "m", "p", "3">>

\* what gTTS synthesises from a text
Speech(text) == [speech |-> text]

None == [none |-> TRUE, path |-> <<>>]

\* Python truthiness of save_tts's result
Truthy(r) == ~r.none /\ r.path # <<>>

\* a working directory is a set of files, one per name
WriteFile(fs, name, content) ==
    {f \in fs : f.name # name} \cup {[name |-> name, content |-> content]}

\* the content read from an existing file
ReadFile(fs, name) == (CHOOSE f \in fs : f.name = name).content

\* save_tts without the test of TTS_AVAILABLE
save_tts_unguarded(text, filename, fs, texts) ==
    [ret |-> [none |-> FALSE, path |-> filename],
     files |-> WriteFile(fs, filename, Speech(text)),
     tts_texts |-> texts \cup {text}]

\* save_tts: its result, the working directory and the texts synthesised
save_tts(text, filename, fs, texts) ==
    IF ~TTS_AVAILABLE
    THEN [ret |-> None, files |-> fs, tts_texts |-> texts]
    ELSE [ret |-> [none |-> FALSE, path |-> filename],
          files |-> WriteFile(fs, filename, Speech(text)),
          tts_texts |-> texts \cup {text}]

\* a handler that gives save_tts the text as it was before wrapping
SpokenTextUnwrapped(wrapped, unwrapped) == unwrapped

\* line 100: the text the handler gives save_tts
SpokenText(wrapped, unwrapped) == wrapped

\* lines 98-105: the elements the speech branch renders, and its effects
OfferTts(text, sd, fs, texts) ==
    IF TTS_AVAILABLE
    THEN LET r == save_tts(text, AudioFileName(sd), fs, texts)
         IN [elements |->
                IF Truthy(r.ret)
                THEN <<[kind |-> "audio", data |-> ReadFile(r.files, r.ret.path)],
                       [kind |-> "success", data |-> "Audio created (play above)."]>>
                ELSE <<>>,
             files |-> r.files, tts_texts |-> r.tts_texts]
    ELSE [elements |->
            <<[kind |-> "info",
               data |-> "TTS not installed. To enable, pip install gTTS and restart."]>>,
          files |-> fs, tts_texts |-> texts]

-------------------------------------------------------------------------------
(* The page: widget edits and the "Generate story" button *)

\* the values tried for each widget: its default and one end of its range
MaxLenChoices == {DefaultMaxLen, 400}
TempChoices == {DefaultTemp, 120}
TopPChoices == {10, DefaultTopP}
TopKChoices == {10, DefaultTopK}
SeedChoices == {DefaultSeed, 9999}
MoodChoices == {happy, silly}
CharacterChoices == {DefaultCharacter, <<"B", "o", ".">>}
SettingChoices == {DefaultSetting, <<"a", " ", "c", "a", "v", "e">>}
ThemeChoices == {DefaultTheme, <<"s", "h", "a", "r", "i", "n", "g">>}

Init ==
    /\ TTS_AVAILABLE \in BOOLEAN
    /\ InitWidgets
    /\ InitIdle
    /\ sess = <<>>
    /\ pc = "page"
    /\ prompt = <<>>
    /\ continuation = <<>>
    /\ out = <<>>
    /\ generated = <<>>
    /\ trimmed = <<>>
    /\ story = <<>>

Edited ==
    /\ nedits < MaxEdits
    /\ nedits' = nedits + 1
    /\ UNCHANGED <<TTS_AVAILABLE, rng, sampled, kwargs, prompt, continuation,
                   out, generated, trimmed, story, page, files, tts_texts,
                   history, nruns, pc, sess>>

SetModel ==
    /\ model_name' \in ModelOptions \ {model_name}
    /\ Edited
    /\ UNCHANGED <<max_len, temp, top_p, top_k, seed, character, mood, setting, theme>>

SetMaxLen ==
    /\ max_len' \in MaxLenChoices \ {max_len}
    /\ Edited
    /\ UNCHANGED <<model_name, temp, top_p, top_k, seed, character, mood, setting, theme>>

SetTemp ==
    /\ temp' \in TempChoices \ {temp}
    /\ Edited
    /\ UNCHANGED <<model_name, max_len, top_p, top_k, seed, character, mood, setting, theme>>

SetTopP ==
    /\ top_p' \in TopPChoices \ {top_p}
    /\ Edited
    /\ UNCHANGED <<model_name, max_len, temp, top_k, seed, character, mood, setting, theme>>

SetTopK ==
    /\ top_k' \in TopKChoices \ {top_k}
    /\ Edited
    /\ UNCHANGED <<model_name, max_len, temp, top_p, seed, character, mood, setting, theme>>

SetSeed ==
    /\ seed' \in SeedChoices \ {seed}
    /\ Edited
    /\ UNCHANGED <<model_name, max_len, temp, top_p, top_k, character, mood, setting, theme>>

SetCharacter ==
    /\ character' \in CharacterChoices \ {character}
    /\ Edited
    /\ UNCHANGED <<model_name, max_len, temp, top_p, top_k, seed, mood, setting, theme>>

SetMood ==
    /\ mood' \in MoodChoices \ {mood}
    /\ Edited
    /\ UNCHANGED <<model_name, max_len, temp, top_p, top_k, seed, character, setting, theme>>

SetSetting ==
    /\ setting' \in SettingChoices \ {setting}
    /\ Edited
    /\ UNCHANGED <<model_name, max_len, temp, top_p, top_k, seed, character, mood, theme>>

SetTheme ==
    /\ theme' \in ThemeChoices \ {theme}
    /\ Edited
    /\ UNCHANGED <<model_name, max_len, temp, top_p, top_k, seed, character, mood, setting>>

\* lines 85-108: one click on "Generate story"
Generate ==
    /\ nruns < MaxRuns
    /\ nruns' = nruns + 1
    /\ LET p == build_prompt(character, setting, mood, theme)
           args == GenerateStoryArgs(p, max_len, seed, temp, top_k, top_p)
           kw == GeneratorKwargs(args)
           seeded == set_seed(args.seed, rng)
       IN \E o \in GeneratorResults(model_name, kw, seeded, sampled) :
            LET text == o[1]
                unwrapped == TrimmedStory(text, args.prompt)
                result == generate_story(text, args.prompt)
                tts == OfferTts(SpokenText(result, unwrapped), seed, files, tts_texts)
            IN /\ prompt' = p
               /\ kwargs' = kw
               /\ rng' = Advance(seeded)
               /\ sampled' = Remember(model_name, kw, seeded, o, sampled)
               /\ out' = o
               /\ generated' = text
               /\ continuation' = Suffix(text, Len(p))
               /\ trimmed' = unwrapped
               /\ story' = result
               /\ page' = <<[kind |-> "subheader", data |-> "Generated story"],
                            [kind |-> "write", data |-> result]>>
                          \o tts.elements
                          \o <<[kind |-> "download_button", data |-> result]>>
               /\ files' = tts.files
               /\ tts_texts' = tts.tts_texts
               /\ history' = Append(history,
                    [generator |-> model_name, args |-> args, story |-> result])
    /\ UNCHANGED <<TTS_AVAILABLE, widgets, nedits, pc, sess>>

Next ==
    \/ SetModel \/ SetMaxLen \/ SetTemp \/ SetTopP \/ SetTopK \/ SetSeed
    \/ SetCharacter \/ SetMood \/ SetSetting \/ SetTheme
    \/ Generate

Spec == Init /\ [][Next]_vars

-------------------------------------------------------------------------------
(* Concurrent browser sessions: each runs the script in a thread of its    *)
(* own, in one process and one working directory.  A run is cut where      *)
(* another thread can be scheduled between two of its calls; save_tts is   *)
(* kept in one piece.  The sessions differ in the character and the seed   *)
(* their widgets hold; the other widgets hold the defaults.                *)

NumSessions == 2
Sessions == 1..NumSessions

IdleSession(c, sd) ==
    [pc |-> "idle", character |-> c, seed |-> sd, prompt |-> <<>>,
     story |-> <<>>, tts_file |-> None, page |-> NoPage]

InitConc ==
    /\ TTS_AVAILABLE \in BOOLEAN
    /\ InitWidgets
    /\ InitIdle
    /\ sess \in [Sessions -> {IdleSession(c, sd) :
                                c \in CharacterChoices, sd \in SeedChoices}]
    /\ pc = "sessions"
    /\ prompt = <<>>
    /\ continuation = <<>>
    /\ out = <<>>
    /\ generated = <<>>
    /\ trimmed = <<>>
    /\ story = <<>>

SessionLocals ==
    <<TTS_AVAILABLE, widgets, kwargs, prompt, continuation, out, generated,
      trimmed, story, page, history, nruns, nedits, pc>>

\* lines 85-88 and 33: the click, the prompt, set_seed
ClickGenerate(s) ==
    /\ sess[s].pc = "idle"
    /\ LET p == build_prompt(sess[s].character, setting, mood, theme)
       IN sess' = [sess EXCEPT ![s].pc = "seeded", ![s].prompt = p]
    /\ rng' = set_seed(sess[s].seed, rng)
    /\ UNCHANGED <<SessionLocals, sampled, files, tts_texts>>

\* lines 34-50 and 95-96: the generator call, the post-processing, the story
\* on the page
SampleStory(s) ==
    /\ sess[s].pc = "seeded"
    /\ LET args == GenerateStoryArgs(sess[s].prompt, max_len, sess[s].seed,
                                     temp, top_k, top_p)
           kw == GeneratorKwargs(args)
       IN \E o \in GeneratorResults(model_name, kw, rng, sampled) :
            LET result == generate_story(o[1], args.prompt)
            IN /\ sess' = [sess EXCEPT
                    ![s].pc = "generated",
                    ![s].story = result,
                    ![s].page = <<[kind |-> "subheader", data |-> "Generated story"],
                                  [kind |-> "write", data |-> result]>>]
               /\ sampled' = Remember(model_name, kw, rng, o, sampled)
               /\ rng' = Advance(rng)
    /\ UNCHANGED <<SessionLocals, files, tts_texts>>

\* lines 99-100: save_tts writes story_<seed>.mp3
SaveSpeech(s) ==
    /\ sess[s].pc = "generated"
    /\ TTS_AVAILABLE
    /\ LET r == save_tts(sess[s].story, AudioFileName(sess[s].seed),
                         files, tts_texts)
       IN /\ files' = r.files
          /\ tts_texts' = r.tts_texts
          /\ sess' = [sess EXCEPT ![s].pc = "saved", ![s].tts_file = r.ret]
    /\ UNCHANGED <<SessionLocals, rng, sampled>>

\* lines 101-103 and 108: st.audio reads the file, then the download button
PlayAudio(s) ==
    /\ sess[s].pc = "saved"
    /\ sess' = [sess EXCEPT
          ![s].pc = "done",
          ![s].page = @
             \o (IF Truthy(sess[s].tts_file)
                 THEN <<[kind |-> "audio",
                         data |-> ReadFile(files, sess[s].tts_file.path)],
                        [kind |-> "success", data |-> "Audio created (play above)."]>>
                 ELSE <<>>)
             \o <<[kind |-> "download_button", data |-> sess[s].story]>>]
    /\ UNCHANGED <<SessionLocals, rng, sampled, files, tts_texts>>

\* lines 104-108: no speech library
ShowInfo(s) ==
    /\ sess[s].pc = "generated"
    /\ ~TTS_AVAILABLE
    /\ sess' = [sess EXCEPT
          ![s].pc = "done",
          ![s].page = @
             \o <<[kind |-> "info",
                   data |-> "TTS not installed. To enable, pip install gTTS and restart."],
                  [kind |-> "download_button", data |-> sess[s].story]>>]
    /\ UNCHANGED <<SessionLocals, rng, sampled, files, tts_texts>>

NextConc ==
    \E s \in Sessions :
        \/ ClickGenerate(s)
        \/ SampleStory(s)
        \/ SaveSpeech(s)
        \/ PlayAudio(s)
        \/ ShowInfo(s)

SpecConc == InitConc /\ [][NextConc]_vars

-------------------------------------------------------------------------------
(* Observations used to state the properties *)

\* the characters of s that are not whitespace, in order
NonWS(s) == SelectSeq(s, LAMBDA c : c \notin Whitespace)

IsPrefixOf(a, b) == Len(a) <= Len(b) /\ SubSeq(b, 1, Len(a)) = a

RECURSIVE LinesOf(_)
\* s cut at its newlines
LinesOf(s) ==
    IF ~Contains(s, "\n") THEN <<s>>
    ELSE LET i == CHOOSE k \in 1..Len(s) :
                    s[k] = "\n" /\ \A j \in 1..(k - 1) : s[j] # "\n"
         IN <<Prefix(s, i - 1)>> \o LinesOf(Suffix(s, i))

\* s up to and including its last period (s holds one)
UpToLastPeriod(s) ==
    Prefix(s, CHOOSE i \in 1..Len(s) :
                 s[i] = "." /\ \A j \in (i + 1)..Len(s) : s[j] # ".")

\* the text left once an echoed prompt is removed
Remaining == StripPrompt(generated, prompt)

\* a text that wrapping leaves as it is: one line of at most Width
\* characters that starts and ends with a word
FitsOneLine(s) ==
    /\ Len(s) <= Width
    /\ ~Contains(s, "\n")
    /\ s # <<>> => (s[1] \notin Whitespace /\ s[Len(s)] \notin Whitespace)

-------------------------------------------------------------------------------
(* Properties of generate_story's post-processing, under SpecText *)

\* C1: when the generator's output is the prompt followed by new text, the
\* returned story is computed from the new text alone: it is the trimmed and
\* wrapped new text, and its characters are an initial part of the new text's.
C1_EchoedPromptStripped ==
    (pc = "done" /\ generated = prompt \o continuation) =>
        /\ story = WrapStory(TrimToLastSentence(Strip(continuation)))
        /\ IsPrefixOf(NonWS(story), NonWS(continuation))

C1_Witness ==
    /\ pc = "done"
    /\ generated = prompt \o continuation
    /\ story # <<>>

C3_WrappedToWidth ==
    pc = "done" =>
        /\ \A i \in 1..Len(LinesOf(story)) : Len(LinesOf(story)[i]) <= Width
        /\ NonWS(story) = NonWS(trimmed)

C3_Witness ==
    /\ pc = "done"
    /\ Len(LinesOf(story)) >= 3
    /\ \E i \in 1..Len(LinesOf(story)) : Len(LinesOf(story)[i]) = Width

\* C8: a text with no period is returned whole, only stripped and wrapped;
\* and an output that does not start with the prompt loses no prefix, so
\* that a period of the prompt text in it can be the last period.
C8_NoPeriodNoEcho ==
    pc = "done" =>
        /\ ~Contains(Remaining, ".") =>
              /\ story = Fill(Strip(Remaining), Width)
              /\ NonWS(story) = NonWS(Remaining)
        /\ ~StartsWith(generated, prompt) =>
              NonWS(story) =
                  NonWS(IF Contains(generated, ".")
                        THEN UpToLastPeriod(generated) ELSE generated)

C8_Witness ==
    /\ pc = "done"
    /\ ~StartsWith(generated, prompt)
    /\ generated = <<" ">> \o prompt \o continuation
    /\ ~Contains(continuation, ".")
    /\ NonWS(continuation) # <<>>
    /\ NonWS(story) = NonWS(UpToLastPeriod(prompt))

\* a text with no period that is returned whole and ends mid-sentence
C8_WholeTextReturned ==
    /\ pc = "done"
    /\ ~Contains(Remaining, ".")
    /\ story # <<>>
    /\ NonWS(story) = NonWS(Remaining)

-------------------------------------------------------------------------------
(* Properties of the page, under Spec *)

\* the elements of a page of a given kind
ElementsOf(pg, kind) == SelectSeq(pg, LAMBDA e : e.kind = kind)

Kinds(pg) == [i \in 1..Len(pg) |-> pg[i].kind]

WithoutNewline(line) == Prefix(line, Len(line) - 1)

C5_ParametersPassedThrough ==
    [][nruns' = nruns + 1 =>
          /\ kwargs'.prompt = build_prompt(character, setting, mood, theme)
          /\ kwargs'.max_length = max_len
          /\ kwargs'.temperature = temp
          /\ kwargs'.top_k = top_k
          /\ kwargs'.top_p = top_p
          /\ rng'.seed = seed
          /\ kwargs'.num_return_sequences = 1
          /\ Len(out') = 1
          /\ generated' = out'[1]]_vars

C5_Witness ==
    /\ nruns > 0
    /\ kwargs.temperature = temp
    /\ kwargs.top_k = top_k
    /\ temp # DefaultTemp
    /\ top_k # DefaultTopK
    /\ rng.seed = seed

\* C6: without the speech library save_tts returns None, calls no synthesis
\* and writes no file; a Generate click still shows the story and the text
\* download, with an informational notice in place of the audio.
C6_SpeechSkipped ==
    ~TTS_AVAILABLE =>
        /\ \A text \in {story, trimmed, prompt} :
              save_tts(text, AudioFileName(seed), files, tts_texts) =
                  [ret |-> None, files |-> files, tts_texts |-> tts_texts]
        /\ files = {}
        /\ tts_texts = {}
        /\ nruns > 0 =>
              /\ Kinds(page) = <<"subheader", "write", "info", "download_button">>
              /\ page[2].data = story
              /\ page[4].data = story

C6_Witness ==
    /\ ~TTS_AVAILABLE
    /\ nruns > 0
    /\ story # <<>>
    /\ Kinds(page) = <<"subheader", "write", "info", "download_button">>

\* C7: with the speech library, the text given to the synthesis call in a
\* run is the story the page shows and the download button offers, and no
\* other text is ever synthesised.
C7_SpokenTextIsStory ==
    (TTS_AVAILABLE /\ nruns > 0) =>
        /\ Kinds(page) = <<"subheader", "write", "audio", "success", "download_button">>
        /\ page[3].data = Speech(page[2].data)
        /\ page[3].data.speech \in tts_texts
        /\ \A t \in tts_texts : \E i \in 1..Len(history) : history[i].story = t
        /\ page[2].data = story
        /\ page[5].data = story

C7_Witness ==
    /\ TTS_AVAILABLE
    /\ nruns > 0
    /\ story # trimmed
    /\ page[3].data = Speech(story)

\* C9: two calls of generate_story with the same generator, prompt, seed and
\* sampling parameters return the same story, whatever calls ran between them.
C9_Reproducible ==
    \A i, j \in 1..Len(history) :
        (history[i].generator = history[j].generator
            /\ history[i].args = history[j].args)
        => history[i].story = history[j].story

C9_Witness ==
    /\ Len(history) = 3
    /\ history[1].generator = history[3].generator
    /\ history[1].args = history[3].args
    /\ history[2].args.seed # history[1].args.seed
    /\ history[2].story # history[1].story

-------------------------------------------------------------------------------
(* Property of concurrent sessions, under SpecConc *)

\* C10: the audio a run hands to the player is the synthesis of that run's
\* own story.
C10_AudioIsOwnStory ==
    \A s \in Sessions :
        \A i \in 1..Len(sess[s].page) :
            sess[s].page[i].kind = "audio" =>
                sess[s].page[i].data = Speech(sess[s].story)

===============================================================================
